---- MODULE Spec2Model ----
(***************************************************************************)
(* youtube-whisper: YouTubeTranscriptTool (src/yt_transcribe.py) and its   *)
(* interactive controller main().                                          *)
(*                                                                         *)
(* Text is modelled as a sequence of one-character strings, so that the    *)
(* regular expressions, str.strip, int() and os.path.splitext are computed *)
(* character by character.  Times are exact decimals held as an integer    *)
(* number of milliseconds.                                                 *)
(***************************************************************************)
EXTENDS Integers, Sequences, FiniteSets, TLC

(***************************************************************************)
(* Bounds of the model.                                                    *)
(***************************************************************************)
\* invocations of the program that follow one another on the same disk
MaxInvocations == 2
\* longest snippet / segment sequence an external service hands back
MaxSnippets == 2
\* most caption tracks the captions service lists for a video
MaxTracks == 2

(***************************************************************************)
(* Characters and small text helpers.                                      *)
(***************************************************************************)
Digits == {"0","1","2","3","4","5","6","7","8","9"}

Lowers == {"a","b","c","d","e","f","g","h","i","j","k","l","m",
           "n","o","p","q","r","s","t","u","v","w","x","y","z"}

Uppers == {"A","B","C","D","E","F","G","H","I","J","K","L","M",
           "N","O","P","Q","R","S","T","U","V","W","X","Y","Z"}

\* the character class [A-Za-z0-9_-] of the bare-identifier pattern
IdChars == Uppers \cup Lowers \cup Digits \cup {"_", "-"}

\* the characters the group [^#\&\?\/] of the URL pattern refuses
GroupStopChars == {"#", "&", "?", "/"}

\* what str.strip() removes
Whitespace == {" ", "\t", "\n", "\r"}

\* the length both patterns ask for, {11}
IdLen == 11

Min(S) == CHOOSE x \in S : \A y \in S : x <= y

Max(S) == CHOOSE x \in S : \A y \in S : x >= y

\* str.strip(): drop leading and trailing whitespace
Strip(s) ==
    LET keep == {i \in 1..Len(s) : s[i] \notin Whitespace}
    IN  IF keep = {} THEN <<>> ELSE SubSeq(s, Min(keep), Max(keep))

\* str.lower() on the letters the prompts can see
LowerChar(c) ==
    IF c \in Uppers
    THEN CHOOSE l \in Lowers :
           \E k \in 1..26 :
             /\ <<"A","B","C","D","E","F","G","H","I","J","K","L","M",
                  "N","O","P","Q","R","S","T","U","V","W","X","Y","Z">>[k] = c
             /\ <<"a","b","c","d","e","f","g","h","i","j","k","l","m",
                  "n","o","p","q","r","s","t","u","v","w","x","y","z">>[k] = l
    ELSE c

Lower(s) == [i \in 1..Len(s) |-> LowerChar(s[i])]

DigitValue(c) ==
    CHOOSE n \in 0..9 : <<"0","1","2","3","4","5","6","7","8","9">>[n + 1] = c

RECURSIVE DigitsValue(_)
DigitsValue(s) ==
    IF s = <<>> THEN 0
    ELSE 10 * DigitsValue(SubSeq(s, 1, Len(s) - 1)) + DigitValue(s[Len(s)])

\* int(s) of a stripped string: an optional sign, then digits that single
\* underscores may separate; anything else raises ValueError
ParseInt(s) ==
    LET signed == s # <<>> /\ s[1] \in {"+", "-"}
        body   == IF signed THEN Tail(s) ELSE s
        wellFormed ==
            /\ body # <<>>
            /\ \A i \in 1..Len(body) : body[i] \in Digits \cup {"_"}
            /\ body[1] # "_" /\ body[Len(body)] # "_"
            /\ \A i \in 1..(Len(body) - 1) : ~(body[i] = "_" /\ body[i + 1] = "_")
        digits == SelectSeq(body, LAMBDA c : c \in Digits)
        value  == DigitsValue(digits)
    IN  IF wellFormed
        THEN [ok |-> TRUE, value |-> IF signed /\ s[1] = "-" THEN 0 - value ELSE value]
        ELSE [ok |-> FALSE, value |-> 0]

(***************************************************************************)
(* extract_video_id                                                        *)
(***************************************************************************)
\* mutant of IsBareId: the hyphen is missing from the character class
IsBareIdNoHyphen(s) ==
    /\ Len(s) >= IdLen
    /\ \A i \in 1..IdLen : s[i] \in IdChars \ {"-"}
    /\ \/ Len(s) = IdLen
       \/ Len(s) = IdLen + 1 /\ s[IdLen + 1] = "\n"

\* re.match(r'^[A-Za-z0-9_-]{11}$', s): "$" also matches just before a
\* newline that ends the string
IsBareId(s) ==
    /\ Len(s) >= IdLen
    /\ \A i \in 1..IdLen : s[i] \in IdChars
    /\ \/ Len(s) = IdLen
       \/ Len(s) = IdLen + 1 /\ s[IdLen + 1] = "\n"

\* "." of the pattern: any character but a newline
Dot == "ANYCHAR"

\* the alternatives of (?:v=|\/videos\/|embed\/|youtu.be\/|\/v\/|\/e\/|watch\?v=|&v=)
\* in the order the pattern tries them
UrlMarkers ==
    << <<"v","=">>,
       <<"/","v","i","d","e","o","s","/">>,
       <<"e","m","b","e","d","/">>,
       <<"y","o","u","t","u",Dot,"b","e","/">>,
       <<"/","v","/">>,
       <<"/","e","/">>,
       <<"w","a","t","c","h","?","v","=">>,
       <<"&","v","=">> >>

\* marker m matches s at position i and the group ([^#\&\?\/]{11}) follows it
MarkerMatchesAt(s, i, m) ==
    /\ i + Len(m) + IdLen - 1 <= Len(s)
    /\ \A k \in 1..Len(m) :
         IF m[k] = Dot THEN s[i + k - 1] # "\n" ELSE s[i + k - 1] = m[k]
    /\ \A k \in 1..IdLen : s[i + Len(m) + k - 1] \notin GroupStopChars

\* re.search: the leftmost position where some alternative matches, the
\* first such alternative there, and its group(1)
UrlSearch(s) ==
    LET hits == {i \in 1..Len(s) :
                   \E a \in 1..Len(UrlMarkers) : MarkerMatchesAt(s, i, UrlMarkers[a])}
    IN  IF hits = {} THEN [ok |-> FALSE, id |-> <<>>]
        ELSE LET i == Min(hits)
                 a == Min({b \in 1..Len(UrlMarkers) : MarkerMatchesAt(s, i, UrlMarkers[b])})
                 from == i + Len(UrlMarkers[a])
             IN  [ok |-> TRUE, id |-> SubSeq(s, from, from + IdLen - 1)]

\* the result of extract_video_id(youtube_url); ok = FALSE stands for the
\* ValueError it raises
ExtractVideoId(youtube_url) ==
    IF IsBareId(youtube_url) THEN [ok |-> TRUE, id |-> youtube_url]
    ELSE UrlSearch(youtube_url)

(***************************************************************************)
(* Output paths and the text written to the files.                         *)
(***************************************************************************)
\* __init__'s default output_directory, the one main() uses
OutputDirectory == <<"t","r","a","n","s","c","r","i","p","t","s">>

\* os.path.join(a, b)
PathJoin(a, b) ==
    IF b # <<>> /\ b[1] = "/" THEN b
    ELSE IF a = <<>> \/ a[Len(a)] = "/" THEN a \o b
    ELSE a \o <<"/">> \o b

\* os.path.splitext(path)[0]: cut at the last dot of the last component,
\* unless only dots precede it there
SplitExtRoot(path) ==
    LET seps == {i \in 1..Len(path) : path[i] = "/"}
        dots == {i \in 1..Len(path) : path[i] = "."}
        sep  == IF seps = {} THEN 0 ELSE Max(seps)
        dot  == IF dots = {} THEN 0 ELSE Max(dots)
    IN  IF dot > sep /\ \E i \in (sep + 1)..(dot - 1) : path[i] # "."
        THEN SubSeq(path, 1, dot - 1)
        ELSE path

\* output_path of fetch_transcript
CaptionPath(video_id) ==
    PathJoin(OutputDirectory,
             video_id \o <<"_","t","r","a","n","s","c","r","i","p","t",".","t","x","t">>)

\* audio_file of download_and_transcribe
AudioPath(video_id) ==
    PathJoin(OutputDirectory, video_id \o <<".","m","p","3">>)

\* transcript_file of download_and_transcribe
TranscriptPath(audio_file) ==
    SplitExtRoot(audio_file) \o <<"_","t","r","a","n","s","c","r","i","p","t",".","t","x","t">>

\* segments_file of download_and_transcribe
SegmentsPath(audio_file) ==
    SplitExtRoot(audio_file) \o <<"_","s","e","g","m","e","n","t","s",".","t","x","t">>

\* youtube_full_url of download_and_transcribe
FullUrl(video_id, youtube_url) ==
    IF Len(video_id) = IdLen
    THEN <<"h","t","t","p","s",":","/","/","w","w","w",".","y","o","u","t","u","b","e",
           ".","c","o","m","/","w","a","t","c","h","?","v","=">> \o video_id
    ELSE youtube_url

DigitChar(n) == <<"0","1","2","3","4","5","6","7","8","9">>[n + 1]

RECURSIVE IntChars(_)
IntChars(n) ==
    IF n < 10 THEN <<DigitChar(n)>>
    ELSE IntChars(n \div 10) \o <<DigitChar(n % 10)>>

\* f"{x:.2f}" of a time of ms milliseconds: rounded to hundredths, ties to even
Fmt2(ms) ==
    LET q == ms \div 10
        r == ms % 10
        c == IF r > 5 \/ (r = 5 /\ q % 2 = 1) THEN q + 1 ELSE q
    IN  IntChars(c \div 100) \o <<".", DigitChar((c % 100) \div 10), DigitChar(c % 10)>>

\* f"[{a:.2f}s - {b:.2f}s] {text}\n"
TimedLine(a, b, text) ==
    <<"[">> \o Fmt2(a) \o <<"s"," ","-"," ">> \o Fmt2(b) \o <<"s","]"," ">>
        \o text \o <<"\n">>

\* the line fetch_transcript writes for one snippet
SnippetLine(snippet) ==
    TimedLine(snippet.start, snippet.start + snippet.duration, snippet.text)

\* the line download_and_transcribe writes for one segment
SegmentLine(segment) ==
    TimedLine(segment.start, segment.end, Strip(segment.text))

RECURSIVE ConcatAll(_)
ConcatAll(seqs) ==
    IF seqs = <<>> THEN <<>> ELSE Head(seqs) \o ConcatAll(Tail(seqs))

\* everything the "for snippet in transcript" loop writes
SnippetLines(transcript) ==
    ConcatAll([i \in 1..Len(transcript) |-> SnippetLine(transcript[i])])

\* everything the "for segment in result['segments']" loop writes
SegmentLines(segments) ==
    ConcatAll([i \in 1..Len(segments) |-> SegmentLine(segments[i])])

\* transcript.to_raw_data()
ToRawData(transcript) ==
    [i \in 1..Len(transcript) |->
        [text |-> transcript[i].text, start |-> transcript[i].start,
         duration |-> transcript[i].duration]]

(***************************************************************************)
(* Program constants.                                                      *)
(***************************************************************************)
WHISPER_MODELS ==
    << "tiny", "tiny.en", "base", "base.en", "small", "small.en",
       "medium", "medium.en",
       "large", "large-v1", "large-v2", "large-v3", "large-v3-turbo", "turbo" >>

\* mutant of ModelIsValid: any non-empty name passes
ModelIsValidAnyName(model_name) == model_name # ""

\* "model_name not in self.WHISPER_MODELS", negated
ModelIsValid(model_name) ==
    \E i \in 1..Len(WHISPER_MODELS) : WHISPER_MODELS[i] = model_name

\* the exceptions the code raises itself: kind is the exception class,
\* msg the text it carries
InvalidIdError == [kind |-> "ValueError", msg |-> "Could not extract video ID from URL"]

InvalidModelError == [kind |-> "ValueError", msg |-> "Invalid model name"]

\* raised for subprocess.CalledProcessError (the downloader exited non-zero)
DownloadFailedError == [kind |-> "Exception", msg |-> "Failed to download video"]

\* raised for FileNotFoundError (no yt-dlp executable)
DownloaderMissingError == [kind |-> "Exception", msg |-> "yt-dlp not found"]

\* int(lang_choice) on a non-number
IntError == [kind |-> "ValueError", msg |-> "invalid literal for int()"]

NoError == [kind |-> "none", msg |-> "none"]

(***************************************************************************)
(* Inputs and the answers of the external collaborators, drawn from small  *)
(* sets.                                                                   *)
(***************************************************************************)
Tok1 == <<"d","Q","w","4","w","9","W","g","X","c","Q">>

Tok2 == <<"A","b","C","d","E","f","G","h","I","j","K">>

WatchBase ==
    <<"h","t","t","p","s",":","/","/","w","w","w",".","y","o","u","t","u","b","e",
      ".","c","o","m","/","w","a","t","c","h","?">>

ShortBase == <<"h","t","t","p","s",":","/","/","y","o","u","t","u",".","b","e","/">>

\* https://www.youtube.com/watch?v=dQw4w9WgXcQ&t=5s
UrlWatch == WatchBase \o <<"v","=">> \o Tok1 \o <<"&","t","=","5","s">>

\* https://youtu.be/dQw4w9WgXcQ
UrlShort == ShortBase \o Tok1

\* https://www.youtube.com/watch?rv=AbCdEfGhIjK&v=dQw4w9WgXcQ
UrlParamBefore == WatchBase \o <<"r","v","=">> \o Tok2 \o <<"&","v","=">> \o Tok1

\* https://youtu.be/dQw4w9W!XcQ
UrlBadChars == ShortBase \o <<"d","Q","w","4","w","9","W","!","X","c","Q">>

\* https://www.youtube.com/watch?v=short
UrlShortToken == WatchBase \o <<"v","=","s","h","o","r","t">>

\* what is typed at "Enter YouTube URL or video ID", or passed as youtube_url
UrlInputs ==
    { Tok1, Tok1 \o <<"\n">>, UrlWatch, UrlParamBefore,
      UrlBadChars, UrlShortToken, <<"h","e","l","l","o">> }

\* what is typed at "Enter your choice (1 or 2)"
ChoiceInputs == { <<"1">>, <<"2">>, <<" ","2">>, <<"3">>, <<>> }

\* what is typed at "Enter language number"
LangInputs == { <<>>, <<"1">>, <<"2">>, <<"9">>, <<"x">> }

\* what is typed at "Preserve HTML formatting?"
FormatInputs == { <<>>, <<"Y">>, <<"n">> }

\* what is typed at "Enter model number"
ModelInputs == { <<>>, <<"1">>, <<"1","4">>, <<"1","5">>, <<"0">>, <<"x">> }

\* model_name of a direct call of download_and_transcribe
ModelArgs == { "large", "tiny", "huge" }

\* languages of a direct call of fetch_transcript
LanguageArgs == { <<"en">>, <<"es", "en">> }

\* the caption tracks the captions service may list for a video
AllTracks ==
    << [language |-> "English", language_code |-> "en", is_generated |-> FALSE],
       [language |-> "Spanish", language_code |-> "es", is_generated |-> TRUE],
       [language |-> "French",  language_code |-> "fr", is_generated |-> TRUE] >>

TrackLists == { SubSeq(AllTracks, 1, n) : n \in 0..Min({MaxTracks, Len(AllTracks)}) }

\* the snippets of a caption track, in the order the service gives them
SnippetStream ==
    << [start |-> 0,    duration |-> 1500, text |-> <<"h","i">>],
       [start |-> 1500, duration |-> 1505, text |-> <<"y","o">>],
       [start |-> 3005, duration |-> 995,  text |-> <<"o","k">>] >>

\* the snippet sequences the captions service may fetch
SnippetSeqs ==
    { SubSeq(SnippetStream, 1, n) : n \in 0..Min({MaxSnippets, Len(SnippetStream)}) }

\* the segments of a recording, in the order the speech model gives them
SegmentStream ==
    << [start |-> 0,    end |-> 1500, text |-> <<" ","h","i">>],
       [start |-> 1500, end |-> 3005, text |-> <<" ","y","o">>],
       [start |-> 3005, end |-> 4000, text |-> <<" ","o","k">>] >>

\* the results model.transcribe may give: the segments and the text they make up
WhisperResults ==
    { [segments |-> SubSeq(SegmentStream, 1, n),
       text |-> ConcatAll([i \in 1..n |-> SegmentStream[i].text])] :
        n \in 0..Min({MaxSnippets, Len(SegmentStream)}) }

(***************************************************************************)
(* State.                                                                  *)
(*   run[p]      the locals of invocation p: where it stands (pc), how it  *)
(*               was entered, its inputs, what it has computed, what it    *)
(*               returned or raised, what main() reported, and log, the    *)
(*               calls it has made outside itself, in order; before is the *)
(*               disk (files) as the invocation found it                   *)
(*   dirs        the directories that exist                                *)
(*   files       the files that exist, path |-> content                    *)
(*   invocations how many invocations have been started                    *)
(***************************************************************************)
VARIABLES run, dirs, files, invocations

vars == <<run, dirs, files, invocations>>

Procs == {"p1", "p2"}

Fresh ==
    [ pc |-> "start", entry |-> "none", choice |-> <<>>, youtube_url |-> <<>>,
      video_id |-> <<>>, model_name |-> "", languages |-> <<>>, lang_arg |-> <<>>,
      preserve_formatting |-> FALSE,
      transcript |-> [language_code |-> "", snippets |-> <<>>],
      result |-> [segments |-> <<>>, text |-> <<>>],
      ret |-> [tag |-> "none"], raised |-> NoError, report |-> "", log |-> <<>>,
      before |-> <<>> ]

Ev(op, arg, outcome) == [op |-> op, arg |-> arg, outcome |-> outcome]

\* mutant of WriteFile: the file is opened for appending
WriteFileAppend(fs, path, content) ==
    [q \in (DOMAIN fs) \cup {path} |->
        IF q = path
        THEN (IF path \in DOMAIN fs THEN fs[path] \o content ELSE content)
        ELSE fs[q]]

\* open(path, 'w') ... write(content): the file holds content and nothing else
WriteFile(fs, path, content) ==
    [q \in (DOMAIN fs) \cup {path} |-> IF q = path THEN content ELSE fs[q]]

\* mutant of Raise: main() answers a failed caption path by going on to the
\* local transcription
RaiseWithFallback(r, error) ==
    [r EXCEPT !.pc = IF r.entry = "main" /\ r.choice = <<"1">> THEN "b_models" ELSE "done",
              !.raised = error,
              !.report = IF r.entry = "main" THEN "Error" ELSE r.report]

\* an exception leaves the invocation: main()'s "except Exception" prints it
\* and main() ends; a direct caller gets it raised
Raise(r, error) ==
    [r EXCEPT !.pc = "done", !.raised = error,
              !.report = IF r.entry = "main" THEN "Error" ELSE r.report]

\* one program run at a time: p1 runs, p2 is not started
Init ==
    /\ run = [p \in Procs |-> IF p = "p1" THEN Fresh ELSE [Fresh EXCEPT !.pc = "off"]]
    /\ dirs \in {{}, {OutputDirectory}}
    /\ files = <<>>
    /\ invocations = 1

(***************************************************************************)
(* Entry: main()'s first prompts, or a direct call of a method.            *)
(***************************************************************************)
MainInput(p) ==
    /\ run[p].pc = "start"
    /\ \E c \in ChoiceInputs, u \in UrlInputs :
         run' = [run EXCEPT ![p] = [Fresh EXCEPT !.pc = "construct", !.entry = "main",
                                                 !.choice = Strip(c),
                                                 !.youtube_url = Strip(u),
                                                 !.before = files]]
    /\ UNCHANGED <<dirs, files, invocations>>

CallFetchTranscript(p) ==
    /\ run[p].pc = "start"
    /\ \E u \in UrlInputs, l \in LanguageArgs, f \in BOOLEAN :
         run' = [run EXCEPT ![p] = [Fresh EXCEPT !.pc = "construct",
                                                 !.entry = "fetch_transcript",
                                                 !.youtube_url = u, !.lang_arg = l,
                                                 !.preserve_formatting = f,
                                                 !.before = files]]
    /\ UNCHANGED <<dirs, files, invocations>>

CallDownloadAndTranscribe(p) ==
    /\ run[p].pc = "start"
    /\ \E u \in UrlInputs, m \in ModelArgs :
         run' = [run EXCEPT ![p] = [Fresh EXCEPT !.pc = "construct",
                                                 !.entry = "download_and_transcribe",
                                                 !.youtube_url = u, !.model_name = m,
                                                 !.before = files]]
    /\ UNCHANGED <<dirs, files, invocations>>

\* YouTubeTranscriptTool.__init__: the output directory is made when absent
Construct(p) ==
    /\ run[p].pc = "construct"
    /\ dirs' = dirs \cup {OutputDirectory}
    /\ run' = [run EXCEPT ![p].pc =
                              CASE run[p].entry = "main" -> "main_branch"
                                [] run[p].entry = "fetch_transcript" -> "ft_resolve"
                                [] OTHER -> "dat_validate",
                          ![p].log =
                              IF OutputDirectory \in dirs THEN @
                              ELSE Append(@, Ev("os.makedirs", OutputDirectory, "ok"))]
    /\ UNCHANGED <<files, invocations>>

\* if choice == "1" ... elif choice == "2" ... else
MainBranch(p) ==
    /\ run[p].pc = "main_branch"
    /\ run' = [run EXCEPT ![p] =
                 CASE run[p].choice = <<"1">> -> [@ EXCEPT !.pc = "a_resolve"]
                   [] run[p].choice = <<"2">> -> [@ EXCEPT !.pc = "b_models"]
                   [] OTHER -> [@ EXCEPT !.pc = "done", !.report = "Invalid choice"]]
    /\ UNCHANGED <<dirs, files, invocations>>

(***************************************************************************)
(* Path A of main(): captions.                                             *)
(***************************************************************************)
\* video_id = tool.extract_video_id(youtube_url)
MainResolve(p) ==
    /\ run[p].pc = "a_resolve"
    /\ LET x == ExtractVideoId(run[p].youtube_url)
       IN  run' = [run EXCEPT ![p] =
                     IF x.ok
                     THEN [@ EXCEPT !.pc = "a_list", !.video_id = x.id,
                                    !.log = Append(@, Ev("extract_video_id", x.id, "ok"))]
                     ELSE Raise([@ EXCEPT !.log =
                                   Append(@, Ev("extract_video_id", <<>>, "raised"))],
                                InvalidIdError)]
    /\ UNCHANGED <<dirs, files, invocations>>

\* get_available_languages: the captions service lists the tracks, or raises
GetAvailableLanguages(p) ==
    /\ run[p].pc = "a_list"
    /\ \/ \E tl \in TrackLists :
            run' = [run EXCEPT ![p].pc = "a_check", ![p].languages = tl,
                                ![p].log = Append(@, Ev("ytt_api.list", run[p].video_id, "ok"))]
       \/ run' = [run EXCEPT ![p] =
                    Raise([@ EXCEPT !.log =
                             Append(@, Ev("ytt_api.list", run[p].video_id, "raised"))],
                          [kind |-> "CouldNotRetrieveTranscript", msg |-> "list"])]
    /\ UNCHANGED <<dirs, files, invocations>>

\* mutant of MainCheckLanguages: the empty list is not tested for
MainCheckLanguagesMissing(p) ==
    /\ run[p].pc = "a_check"
    /\ run' = [run EXCEPT ![p].pc = "a_language"]
    /\ UNCHANGED <<dirs, files, invocations>>

\* if not languages: print("No transcripts available for this video."); return
MainCheckLanguages(p) ==
    /\ run[p].pc = "a_check"
    /\ run' = [run EXCEPT ![p] =
                 IF run[p].languages = <<>>
                 THEN [@ EXCEPT !.pc = "done", !.report = "No transcripts available"]
                 ELSE [@ EXCEPT !.pc = "a_language"]]
    /\ UNCHANGED <<dirs, files, invocations>>

\* mutant of MainLanguagePrompt: a number outside the list selects the first
\* track
MainLanguagePromptDefaulting(p) ==
    /\ run[p].pc = "a_language"
    /\ \E typed \in LangInputs :
         LET lang_choice == Strip(typed)
             n == IF lang_choice = <<>> THEN [ok |-> TRUE, value |-> 1]
                  ELSE ParseInt(lang_choice)
             asked == [run[p] EXCEPT !.log = Append(@, Ev("input", typed, "language"))]
             k == IF n.ok /\ 1 <= n.value /\ n.value <= Len(run[p].languages)
                  THEN n.value ELSE 1
         IN  run' = [run EXCEPT ![p] =
                       IF ~n.ok THEN Raise(asked, IntError)
                       ELSE [asked EXCEPT !.pc = "a_format",
                                          !.lang_arg =
                                             <<run[p].languages[k].language_code>>]]
    /\ UNCHANGED <<dirs, files, invocations>>

\* the language prompt, int(), and the range check
MainLanguagePrompt(p) ==
    /\ run[p].pc = "a_language"
    /\ \E typed \in LangInputs :
         LET lang_choice == Strip(typed)
             n == IF lang_choice = <<>> THEN [ok |-> TRUE, value |-> 1]
                  ELSE ParseInt(lang_choice)
             asked == [run[p] EXCEPT !.log = Append(@, Ev("input", typed, "language"))]
         IN  run' = [run EXCEPT ![p] =
                       IF ~n.ok THEN Raise(asked, IntError)
                       ELSE IF 1 <= n.value /\ n.value <= Len(run[p].languages)
                       THEN [asked EXCEPT !.pc = "a_format",
                                          !.lang_arg =
                                             <<run[p].languages[n.value].language_code>>]
                       ELSE [asked EXCEPT !.pc = "done", !.report = "Invalid selection"]]
    /\ UNCHANGED <<dirs, files, invocations>>

\* preserve_format = input(...).strip().lower() == 'y', then the call of
\* fetch_transcript
MainFormatPrompt(p) ==
    /\ run[p].pc = "a_format"
    /\ \E typed \in FormatInputs :
         run' = [run EXCEPT ![p].pc = "ft_resolve",
                            ![p].preserve_formatting = (Lower(Strip(typed)) = <<"y">>),
                            ![p].log = Append(@, Ev("input", <<>>, "format"))]
    /\ UNCHANGED <<dirs, files, invocations>>

\* the preview and "Full transcript saved to"
MainReportCaptions(p) ==
    /\ run[p].pc = "a_report"
    /\ run' = [run EXCEPT ![p].pc = "done", ![p].report = "Transcript saved"]
    /\ UNCHANGED <<dirs, files, invocations>>

(***************************************************************************)
(* fetch_transcript                                                        *)
(***************************************************************************)
\* video_id = self.extract_video_id(youtube_url), before the try
FetchResolve(p) ==
    /\ run[p].pc = "ft_resolve"
    /\ LET x == ExtractVideoId(run[p].youtube_url)
       IN  run' = [run EXCEPT ![p] =
                     IF x.ok
                     THEN [@ EXCEPT !.pc = "ft_fetch", !.video_id = x.id,
                                    !.log = Append(@, Ev("extract_video_id", x.id, "ok"))]
                     ELSE Raise([@ EXCEPT !.log =
                                   Append(@, Ev("extract_video_id", <<>>, "raised"))],
                                InvalidIdError)]
    /\ UNCHANGED <<dirs, files, invocations>>

\* self.ytt_api.fetch(video_id, languages=..., preserve_formatting=...): the
\* service answers with a track in one of the asked languages, or raises;
\* the except clause prints and raises again
FetchCall(p) ==
    /\ run[p].pc = "ft_fetch"
    /\ \/ \E i \in 1..Len(run[p].lang_arg), sn \in SnippetSeqs :
            run' = [run EXCEPT ![p].pc = "ft_write",
                               ![p].transcript = [language_code |-> run[p].lang_arg[i],
                                                  snippets |-> sn],
                               ![p].log = Append(@, Ev("ytt_api.fetch", run[p].video_id, "ok"))]
       \/ run' = [run EXCEPT ![p] =
                    Raise([@ EXCEPT !.log =
                             Append(@, Ev("ytt_api.fetch", run[p].video_id, "raised"))],
                          [kind |-> "CouldNotRetrieveTranscript", msg |-> "fetch"])]
    /\ UNCHANGED <<dirs, files, invocations>>

\* mutant of FetchWrite: the result is returned with the file left unwritten
FetchWriteSkipped(p) ==
    /\ run[p].pc = "ft_write"
    /\ run' = [run EXCEPT ![p].pc = "ft_return"]
    /\ UNCHANGED <<dirs, files, invocations>>

\* with open(output_path, 'w') ...: one line per snippet
FetchWrite(p) ==
    /\ run[p].pc = "ft_write"
    /\ LET output_path == CaptionPath(run[p].video_id)
       IN  /\ files' = WriteFile(files, output_path, SnippetLines(run[p].transcript.snippets))
           /\ run' = [run EXCEPT ![p].pc = "ft_return",
                                 ![p].log = Append(@, Ev("write", output_path, "ok"))]
    /\ UNCHANGED <<dirs, invocations>>

\* return {...}
FetchReturn(p) ==
    /\ run[p].pc = "ft_return"
    /\ run' = [run EXCEPT ![p].pc = IF run[p].entry = "main" THEN "a_report" ELSE "done",
                          ![p].ret =
                             [tag |-> "fetch_transcript",
                              video_id |-> run[p].video_id,
                              language_code |-> run[p].transcript.language_code,
                              transcript |-> ToRawData(run[p].transcript.snippets),
                              file_path |-> CaptionPath(run[p].video_id)]]
    /\ UNCHANGED <<dirs, files, invocations>>

(***************************************************************************)
(* Path B of main(), and download_and_transcribe.                          *)
(***************************************************************************)
\* mutant of SelectedModel: the fallback is a name that is not in the list
SelectedModelOtherDefault(model_choice) ==
    IF model_choice = <<>> THEN "default"
    ELSE LET n == ParseInt(model_choice)
         IN  IF ~n.ok THEN "default"
             ELSE IF 0 <= n.value - 1 /\ n.value - 1 < Len(WHISPER_MODELS)
             THEN WHISPER_MODELS[n.value]
             ELSE "default"

\* the model menu: empty, non-numeric and out-of-range answers give "large"
SelectedModel(model_choice) ==
    IF model_choice = <<>> THEN "large"
    ELSE LET n == ParseInt(model_choice)
         IN  IF ~n.ok THEN "large"
             ELSE IF 0 <= n.value - 1 /\ n.value - 1 < Len(WHISPER_MODELS)
             THEN WHISPER_MODELS[n.value]
             ELSE "large"

MainModelPrompt(p) ==
    /\ run[p].pc = "b_models"
    /\ \E typed \in ModelInputs :
         run' = [run EXCEPT ![p].pc = "dat_validate",
                            ![p].model_name = SelectedModel(Strip(typed)),
                            ![p].log = Append(@, Ev("input", typed, "model"))]
    /\ UNCHANGED <<dirs, files, invocations>>

\* if model_name not in self.WHISPER_MODELS: raise ValueError
DatValidate(p) ==
    /\ run[p].pc = "dat_validate"
    /\ run' = [run EXCEPT ![p] =
                 IF ModelIsValid(run[p].model_name)
                 THEN [@ EXCEPT !.pc = "dat_resolve"]
                 ELSE Raise(@, InvalidModelError)]
    /\ UNCHANGED <<dirs, files, invocations>>

\* video_id = self.extract_video_id(youtube_url)
DatResolve(p) ==
    /\ run[p].pc = "dat_resolve"
    /\ LET x == ExtractVideoId(run[p].youtube_url)
       IN  run' = [run EXCEPT ![p] =
                     IF x.ok
                     THEN [@ EXCEPT !.pc = "dat_download", !.video_id = x.id,
                                    !.log = Append(@, Ev("extract_video_id", x.id, "ok"))]
                     ELSE Raise([@ EXCEPT !.log =
                                   Append(@, Ev("extract_video_id", <<>>, "raised"))],
                                InvalidIdError)]
    /\ UNCHANGED <<dirs, files, invocations>>

\* what the two except clauses around subprocess.run raise
DownloadError(outcome) ==
    IF outcome = "missing" THEN DownloaderMissingError ELSE DownloadFailedError

\* mutant of AfterDownload: subprocess.run without check=True, so that a
\* non-zero exit goes unnoticed
AfterDownloadUnchecked(r, outcome) ==
    IF outcome = "missing" THEN Raise(r, DownloaderMissingError)
    ELSE [r EXCEPT !.pc = "dat_load"]

\* the invocation after subprocess.run(command, check=True) ended with outcome
AfterDownload(r, outcome) ==
    IF outcome = "ok" THEN [r EXCEPT !.pc = "dat_load"]
    ELSE Raise(r, DownloadError(outcome))

\* subprocess.run of yt-dlp: it writes the audio file and exits 0, exits
\* non-zero, or is not installed
DatDownload(p) ==
    /\ run[p].pc = "dat_download"
    /\ \E outcome \in {"ok", "nonzero", "missing"} :
         LET url == FullUrl(run[p].video_id, run[p].youtube_url)
             called == [run[p] EXCEPT !.log = Append(@, Ev("subprocess.run", url, outcome))]
         IN  /\ run' = [run EXCEPT ![p] = AfterDownload(called, outcome)]
             /\ files' = IF outcome = "ok"
                         THEN WriteFile(files, AudioPath(run[p].video_id), <<"ID3">>)
                         ELSE files
    /\ UNCHANGED <<dirs, invocations>>

\* model = whisper.load_model(model_name)
DatLoadModel(p) ==
    /\ run[p].pc = "dat_load"
    /\ \/ run' = [run EXCEPT ![p].pc = "dat_transcribe",
                             ![p].log = Append(@, Ev("whisper.load_model", <<>>, "ok"))]
       \/ run' = [run EXCEPT ![p] =
                    Raise([@ EXCEPT !.log =
                             Append(@, Ev("whisper.load_model", <<>>, "raised"))],
                          [kind |-> "RuntimeError", msg |-> "load_model"])]
    /\ UNCHANGED <<dirs, files, invocations>>

\* result = model.transcribe(audio_file)
DatTranscribe(p) ==
    /\ run[p].pc = "dat_transcribe"
    /\ \/ \E res \in WhisperResults :
            run' = [run EXCEPT ![p].pc = "dat_write_transcript", ![p].result = res,
                               ![p].log = Append(@, Ev("model.transcribe",
                                                       AudioPath(run[p].video_id), "ok"))]
       \/ run' = [run EXCEPT ![p] =
                    Raise([@ EXCEPT !.log =
                             Append(@, Ev("model.transcribe",
                                          AudioPath(run[p].video_id), "raised"))],
                          [kind |-> "RuntimeError", msg |-> "transcribe"])]
    /\ UNCHANGED <<dirs, files, invocations>>

\* with open(transcript_file, 'w') ...: f.write(result["text"])
DatWriteTranscript(p) ==
    /\ run[p].pc = "dat_write_transcript"
    /\ LET transcript_file == TranscriptPath(AudioPath(run[p].video_id))
       IN  /\ files' = WriteFile(files, transcript_file, run[p].result.text)
           /\ run' = [run EXCEPT ![p].pc = "dat_write_segments",
                                 ![p].log = Append(@, Ev("write", transcript_file, "ok"))]
    /\ UNCHANGED <<dirs, invocations>>

\* mutant of DatWriteSegments: the segments file is not written
DatWriteSegmentsSkipped(p) ==
    /\ run[p].pc = "dat_write_segments"
    /\ run' = [run EXCEPT ![p].pc = "dat_return"]
    /\ UNCHANGED <<dirs, files, invocations>>

\* with open(segments_file, 'w') ...: one line per segment
DatWriteSegments(p) ==
    /\ run[p].pc = "dat_write_segments"
    /\ LET segments_file == SegmentsPath(AudioPath(run[p].video_id))
       IN  /\ files' = WriteFile(files, segments_file, SegmentLines(run[p].result.segments))
           /\ run' = [run EXCEPT ![p].pc = "dat_return",
                                 ![p].log = Append(@, Ev("write", segments_file, "ok"))]
    /\ UNCHANGED <<dirs, invocations>>

\* return {...}
DatReturn(p) ==
    /\ run[p].pc = "dat_return"
    /\ run' = [run EXCEPT ![p].pc = IF run[p].entry = "main" THEN "b_report" ELSE "done",
                          ![p].ret =
                             [tag |-> "download_and_transcribe",
                              video_id |-> run[p].video_id,
                              transcript |-> run[p].result.text,
                              segments |-> run[p].result.segments,
                              transcript_file |-> TranscriptPath(AudioPath(run[p].video_id)),
                              segments_file |-> SegmentsPath(AudioPath(run[p].video_id)),
                              audio_file |-> AudioPath(run[p].video_id)]]
    /\ UNCHANGED <<dirs, files, invocations>>

\* "Transcription complete!" and the preview
MainReportTranscription(p) ==
    /\ run[p].pc = "b_report"
    /\ run' = [run EXCEPT ![p].pc = "done", ![p].report = "Transcription complete"]
    /\ UNCHANGED <<dirs, files, invocations>>

\* the program is run again, on the disk the earlier runs left
Restart(p) ==
    /\ run[p].pc = "done"
    /\ invocations < MaxInvocations
    /\ run' = [run EXCEPT ![p] = Fresh]
    /\ invocations' = invocations + 1
    /\ UNCHANGED <<dirs, files>>

Next ==
    \E p \in Procs :
        \/ MainInput(p) \/ CallFetchTranscript(p) \/ CallDownloadAndTranscribe(p)
        \/ Construct(p) \/ MainBranch(p)
        \/ MainResolve(p) \/ GetAvailableLanguages(p) \/ MainCheckLanguages(p)
        \/ MainLanguagePrompt(p) \/ MainFormatPrompt(p) \/ MainReportCaptions(p)
        \/ FetchResolve(p) \/ FetchCall(p) \/ FetchWrite(p) \/ FetchReturn(p)
        \/ MainModelPrompt(p) \/ DatValidate(p) \/ DatResolve(p) \/ DatDownload(p)
        \/ DatLoadModel(p) \/ DatTranscribe(p) \/ DatWriteTranscript(p)
        \/ DatWriteSegments(p) \/ DatReturn(p) \/ MainReportTranscription(p)
        \/ Restart(p)

Spec == Init /\ [][Next]_vars

\* the program run as a script only: every invocation is main()
NextSession ==
    \E p \in Procs :
        \/ MainInput(p) \/ Construct(p) \/ MainBranch(p)
        \/ MainResolve(p) \/ GetAvailableLanguages(p) \/ MainCheckLanguages(p)
        \/ MainLanguagePrompt(p) \/ MainFormatPrompt(p) \/ MainReportCaptions(p)
        \/ FetchResolve(p) \/ FetchCall(p) \/ FetchWrite(p) \/ FetchReturn(p)
        \/ MainModelPrompt(p) \/ DatValidate(p) \/ DatResolve(p) \/ DatDownload(p)
        \/ DatLoadModel(p) \/ DatTranscribe(p) \/ DatWriteTranscript(p)
        \/ DatWriteSegments(p) \/ DatReturn(p) \/ MainReportTranscription(p)
        \/ Restart(p)

SpecSession == Init /\ [][NextSession]_vars

(***************************************************************************)
(* Vocabulary of the properties.                                           *)
(***************************************************************************)
\* the calls that leave the program: captions service, downloader, speech model
ExternalOps ==
    {"ytt_api.list", "ytt_api.fetch", "subprocess.run", "whisper.load_model",
     "model.transcribe"}

\* the calls that create or change something on disk
DiskOps == {"os.makedirs", "write"}

HasEv(r, op, outcome) ==
    \E i \in DOMAIN r.log : r.log[i].op = op /\ r.log[i].outcome = outcome

NoOps(r, ops) == \A i \in DOMAIN r.log : r.log[i].op \notin ops

CountOp(r, op) == Cardinality({i \in DOMAIN r.log : r.log[i].op = op})

\* path is the same file, or the same absence of one, on both disks
SameFile(path, fs1, fs2) ==
    IF path \in DOMAIN fs1
    THEN path \in DOMAIN fs2 /\ fs1[path] = fs2[path]
    ELSE path \notin DOMAIN fs2

SameFiles(fs1, fs2) ==
    /\ DOMAIN fs1 = DOMAIN fs2
    /\ \A q \in DOMAIN fs1 : fs1[q] = fs2[q]

\* a canonical token: 11 characters, each a letter, digit, hyphen or underscore
IsToken(t) == Len(t) = 11 /\ \A i \in 1..Len(t) : t[i] \in IdChars

\* s holds one of the URL markers with a canonical token right after it
HasMarkerThenToken(s) ==
    \E i \in 1..Len(s), a \in DOMAIN UrlMarkers :
        /\ MarkerMatchesAt(s, i, UrlMarkers[a])
        /\ IsToken(SubSeq(s, i + Len(UrlMarkers[a]), i + Len(UrlMarkers[a]) + 10))

(***************************************************************************)
(* C1: when the top-level choice is neither "1" nor "2", main() reports    *)
(* the invalid choice and ends having made no directory, written no file   *)
(* and called no external service, downloader or model.                    *)
(***************************************************************************)
C1_InvalidChoiceNoSideEffects ==
    \A p \in Procs :
        (run[p].entry = "main" /\ run[p].pc = "done"
            /\ run[p].choice \notin {<<"1">>, <<"2">>})
        => /\ run[p].report = "Invalid choice"
           /\ NoOps(run[p], ExternalOps \cup DiskOps)
           /\ SameFiles(files, run[p].before)

(***************************************************************************)
(* C2: download_and_transcribe with a model name outside WHISPER_MODELS    *)
(* fails with the invalid-model error before anything else: no downloader, *)
(* no model load or run, no audio, transcript or segments file written.    *)
(***************************************************************************)
C2_InvalidModelRejectedFirst ==
    \A p \in Procs :
        (/\ run[p].entry = "download_and_transcribe"
         /\ run[p].model_name \notin {WHISPER_MODELS[i] : i \in DOMAIN WHISPER_MODELS}
         /\ run[p].pc \notin {"start", "construct", "dat_validate"})
        => /\ run[p].pc = "done"
           /\ run[p].raised = InvalidModelError
           /\ run[p].ret.tag = "none"
           /\ NoOps(run[p], ExternalOps \cup {"write", "extract_video_id"})
           /\ SameFiles(files, run[p].before)

C2_Witness ==
    \E p \in Procs :
        /\ run[p].entry = "download_and_transcribe"
        /\ run[p].model_name = "huge"
        /\ run[p].pc = "done"
        /\ run[p].raised = InvalidModelError

(***************************************************************************)
(* C3: for an input that neither matches the bare-token pattern nor holds  *)
(* a URL marker followed by a canonical token, fetch_transcript and        *)
(* download_and_transcribe fail with the invalid-identifier error, having  *)
(* called no external service and written no file.                         *)
(***************************************************************************)
C3_NonTokenInputRejected ==
    \A p \in Procs :
        (/\ run[p].entry \in {"fetch_transcript", "download_and_transcribe"}
         /\ ~IsBareId(run[p].youtube_url)
         /\ ~HasMarkerThenToken(run[p].youtube_url)
         /\ \E i \in DOMAIN run[p].log : run[p].log[i].op = "extract_video_id")
        => /\ run[p].pc = "done"
           /\ run[p].raised = InvalidIdError
           /\ NoOps(run[p], ExternalOps \cup {"write"})
           /\ SameFiles(files, run[p].before)

(***************************************************************************)
(* C4: a downloader that is missing or exits non-zero ends the invocation: *)
(* it was started exactly once, download_and_transcribe ends in an error,  *)
(* the speech model is neither loaded nor run, and the transcript and      *)
(* segments files are neither written nor changed.                         *)
(***************************************************************************)
C4_DownloadFailureIsTerminal ==
    \A p \in Procs :
        \A i \in DOMAIN run[p].log :
            (run[p].log[i].op = "subprocess.run"
                /\ run[p].log[i].outcome \in {"nonzero", "missing"})
            => /\ run[p].pc = "done"
               /\ run[p].raised.kind # "none"
               /\ run[p].ret.tag = "none"
               /\ CountOp(run[p], "subprocess.run") = 1
               /\ NoOps(run[p], {"whisper.load_model", "model.transcribe", "write"})
               /\ SameFile(TranscriptPath(AudioPath(run[p].video_id)),
                           files, run[p].before)
               /\ SameFile(SegmentsPath(AudioPath(run[p].video_id)),
                           files, run[p].before)

C4_Witness ==
    \E p \in Procs :
        /\ HasEv(run[p], "subprocess.run", "nonzero")
        /\ run[p].pc = "done"
        /\ TranscriptPath(AudioPath(run[p].video_id)) \in DOMAIN files

(***************************************************************************)
(* C5: the error of download_and_transcribe when the downloader is not     *)
(* installed differs in kind from the error when the downloader exited     *)
(* non-zero and from a generic failure (Exception).                        *)
(***************************************************************************)
C5_MissingDownloaderHasOwnKind ==
    \A p \in Procs :
        HasEv(run[p], "subprocess.run", "missing")
        => /\ run[p].raised.kind # "none"
           /\ run[p].raised.kind # DownloadError("nonzero").kind
           /\ run[p].raised.kind # "Exception"

(***************************************************************************)
(* C6: in main(), a failed step ends the path and no other path is taken:  *)
(* the failure is the last call the run makes, the run is over with the    *)
(* error reported, path A never starts the downloader or the speech model, *)
(* and path B never calls the captions service.                            *)
(***************************************************************************)
C6_FailureAbortsNoFallback ==
    \A p \in Procs :
        run[p].entry = "main"
        => /\ \A i \in DOMAIN run[p].log :
                run[p].log[i].outcome \in {"raised", "nonzero", "missing"}
                => /\ i = Len(run[p].log)
                   /\ run[p].pc = "done"
                   /\ run[p].report = "Error"
                   /\ run[p].raised.kind # "none"
           /\ run[p].raised.kind # "none"
                => run[p].pc = "done" /\ run[p].report = "Error"
           /\ run[p].choice = <<"1">>
                => NoOps(run[p], {"subprocess.run", "whisper.load_model",
                                  "model.transcribe"})
           /\ run[p].choice = <<"2">>
                => NoOps(run[p], {"ytt_api.list", "ytt_api.fetch"})

C6_Witness ==
    \E p \in Procs :
        /\ run[p].entry = "main"
        /\ run[p].choice = <<"1">>
        /\ run[p].pc = "done"
        /\ HasEv(run[p], "ytt_api.fetch", "raised")

(***************************************************************************)
(* C7: when fetch_transcript has returned, the file at the returned        *)
(* file_path holds the fetched snippets, one line each, in fetch order;    *)
(* when the captions service's fetch fails, that error is raised and the   *)
(* caption file is neither created nor changed.                            *)
(***************************************************************************)
C7_WriteThenReturn ==
    \A p \in Procs :
        /\ run[p].ret.tag = "fetch_transcript"
             => /\ run[p].ret.file_path \in DOMAIN files
                /\ files[run[p].ret.file_path] =
                      ConcatAll([i \in 1..Len(run[p].ret.transcript) |->
                                    SnippetLine(run[p].ret.transcript[i])])
                /\ run[p].ret.transcript = ToRawData(run[p].transcript.snippets)
        /\ HasEv(run[p], "ytt_api.fetch", "raised")
             => /\ run[p].pc = "done"
                /\ run[p].raised.kind = "CouldNotRetrieveTranscript"
                /\ run[p].ret.tag = "none"
                /\ SameFile(CaptionPath(run[p].video_id), files, run[p].before)

C7_Witness ==
    \E p \in Procs :
        /\ run[p].ret.tag = "fetch_transcript"
        /\ Len(run[p].ret.transcript) >= 2
        /\ run[p].ret.file_path \in DOMAIN run[p].before

(***************************************************************************)
(* C8: in path A, when the captions service lists no track, main() reports *)
(* that no transcripts are available and stops: no language or formatting  *)
(* prompt, no fetch, no file write.                                        *)
(***************************************************************************)
C8_NoTracksNoFetch ==
    \A p \in Procs :
        (/\ run[p].entry = "main"
         /\ HasEv(run[p], "ytt_api.list", "ok")
         /\ run[p].languages = <<>>
         /\ run[p].pc # "a_check")
        => /\ run[p].pc = "done"
           /\ run[p].report = "No transcripts available"
           /\ NoOps(run[p], {"input", "ytt_api.fetch", "write"})
           /\ SameFiles(files, run[p].before)

C8_Witness ==
    \E p \in Procs :
        /\ run[p].entry = "main"
        /\ HasEv(run[p], "ytt_api.list", "ok")
        /\ run[p].languages = <<>>
        /\ run[p].report = "No transcripts available"

(***************************************************************************)
(* C9: every identifier extract_video_id returns, and so every identifier  *)
(* given to the captions service, is a canonical token: 11 characters,     *)
(* each a letter, a digit, a hyphen or an underscore.                      *)
(***************************************************************************)
C9_IdentifierIsCanonical ==
    \A p \in Procs :
        \A i \in DOMAIN run[p].log :
            (\/ run[p].log[i].op = "extract_video_id" /\ run[p].log[i].outcome = "ok"
             \/ run[p].log[i].op \in {"ytt_api.list", "ytt_api.fetch"})
            => IsToken(run[p].log[i].arg)

(***************************************************************************)
(* C10: for a URL of a known shape that embeds a valid token,              *)
(* extract_video_id returns that token, whatever query parameters come     *)
(* before or after the token's own marker.                                 *)
(***************************************************************************)
\* the markers of the URL shapes: the query parameter v (watch-query), the
\* short link, and the embed, /v/, /e/ and /videos/ paths
ShapeMarkers ==
    { <<"?","v","=">>, <<"&","v","=">>, <<"y","o","u","t","u",".","b","e","/">>,
      <<"/","e","m","b","e","d","/">>, <<"/","v","/">>, <<"/","e","/">>,
      <<"/","v","i","d","e","o","s","/">> }

\* the tokens s embeds: 11 token characters right after a shape's marker,
\* with no further token character after them
EmbeddedTokens(s) ==
    { SubSeq(s, j, j + 10) :
        j \in { k \in 1..(Len(s) - 10) :
                  /\ \E m \in ShapeMarkers :
                        /\ k > Len(m)
                        /\ SubSeq(s, k - Len(m), k - 1) = m
                  /\ IsToken(SubSeq(s, k, k + 10))
                  /\ (k + 11 <= Len(s) => s[k + 11] \notin IdChars) } }

C10_UrlShapesGiveTheirToken ==
    \A p \in Procs :
        (/\ EmbeddedTokens(run[p].youtube_url) # {}
         /\ \E i \in DOMAIN run[p].log : run[p].log[i].op = "extract_video_id")
        => /\ HasEv(run[p], "extract_video_id", "ok")
           /\ run[p].video_id \in EmbeddedTokens(run[p].youtube_url)

(***************************************************************************)
(* extract_video_id called on its own, over a wider set of inputs.         *)
(***************************************************************************)
\* canonical tokens: Tok1 with one character replaced by a hyphen, an
\* underscore, a digit or a letter
TokenInputs ==
    { [Tok1 EXCEPT ![i] = c] : i \in 1..IdLen, c \in {"-", "_", "0", "z", "Z"} }

\* the tokens, the inputs of main(), and near misses of a token
ResolveInputs ==
    TokenInputs \cup UrlInputs
        \cup { UrlShort, SubSeq(Tok1, 1, IdLen - 1), Tok1 \o <<"A">>, <<" ">> \o Tok1, <<>> }

InitResolve ==
    /\ \E u \in ResolveInputs :
         run = [p \in Procs |->
                  IF p = "p1"
                  THEN [Fresh EXCEPT !.pc = "ev_call", !.entry = "extract_video_id",
                                     !.youtube_url = u]
                  ELSE [Fresh EXCEPT !.pc = "off"]]
    /\ dirs = {OutputDirectory}
    /\ files = <<>>
    /\ invocations = 1

\* extract_video_id(youtube_url): the identifier is returned, or ValueError raised
ExtractCall(p) ==
    /\ run[p].pc = "ev_call"
    /\ LET x == ExtractVideoId(run[p].youtube_url)
       IN  run' = [run EXCEPT ![p] =
                     IF x.ok
                     THEN [@ EXCEPT !.pc = "done", !.video_id = x.id,
                                    !.ret = [tag |-> "extract_video_id", video_id |-> x.id],
                                    !.log = Append(@, Ev("extract_video_id", x.id, "ok"))]
                     ELSE Raise([@ EXCEPT !.log =
                                   Append(@, Ev("extract_video_id", <<>>, "raised"))],
                                InvalidIdError)]
    /\ UNCHANGED <<dirs, files, invocations>>

NextResolve == \E p \in Procs : ExtractCall(p)

SpecResolve == InitResolve /\ [][NextResolve]_vars

(***************************************************************************)
(* C11: on a canonical token (exactly 11 characters, each a letter, digit, *)
(* hyphen or underscore) extract_video_id returns its input unchanged and  *)
(* raises nothing.                                                         *)
(***************************************************************************)
C11_IdentityOnTokens ==
    \A p \in Procs :
        (run[p].entry = "extract_video_id" /\ run[p].pc = "done"
            /\ IsToken(run[p].youtube_url))
        => /\ run[p].raised = NoError
           /\ run[p].ret.tag = "extract_video_id"
           /\ run[p].ret.video_id = run[p].youtube_url

C11_Witness ==
    \E p \in Procs :
        /\ run[p].entry = "extract_video_id" /\ run[p].pc = "done"
        /\ IsToken(run[p].youtube_url)
        /\ \E i \in 1..Len(run[p].youtube_url) : run[p].youtube_url[i] = "-"
        /\ run[p].ret.tag = "extract_video_id"
        /\ run[p].ret.video_id = run[p].youtube_url

(***************************************************************************)
(* C12: the output paths depend on the video identifier only: an input     *)
(* that names identifier t (the bare token t, or a URL shape embedding t)  *)
(* gets the audio, full-text, segments and caption paths that the bare     *)
(* token t gets, in every invocation.                                      *)
(***************************************************************************)
\* the identifiers an input names
NamedTokens(s) == IF IsToken(s) THEN {s} ELSE EmbeddedTokens(s)

\* the paths both operations derive from an input
PathsOfInput(youtube_url) ==
    LET video_id   == ExtractVideoId(youtube_url).id
        audio_file == AudioPath(video_id)
    IN  [audio_file      |-> audio_file,
         transcript_file |-> TranscriptPath(audio_file),
         segments_file   |-> SegmentsPath(audio_file),
         file_path       |-> CaptionPath(video_id)]

C12_PathsFollowIdentifier ==
    \A p \in Procs : \A t \in NamedTokens(run[p].youtube_url) :
        /\ run[p].ret.tag = "download_and_transcribe"
           => /\ run[p].ret.audio_file = PathsOfInput(t).audio_file
              /\ run[p].ret.transcript_file = PathsOfInput(t).transcript_file
              /\ run[p].ret.segments_file = PathsOfInput(t).segments_file
        /\ run[p].ret.tag = "fetch_transcript"
           => run[p].ret.file_path = PathsOfInput(t).file_path

(***************************************************************************)
(* C13: a write of segments overwrites: right after download_and_transcribe*)
(* wrote its segments file, and right after fetch_transcript wrote its     *)
(* caption file, the file holds exactly the lines of the sequence written, *)
(* nothing of what the path held before, and writing the same sequence to  *)
(* the path once more leaves the disk as it is.                            *)
(***************************************************************************)
C13_WriteOverwrites ==
    \A p \in Procs :
        /\ run[p].pc = "dat_return"
           => LET segments_file == SegmentsPath(AudioPath(run[p].video_id))
                  lines == SegmentLines(run[p].result.segments)
              IN  /\ segments_file \in DOMAIN files
                  /\ files[segments_file] = lines
                  /\ WriteFile(files, segments_file, lines) = files
        /\ run[p].pc = "ft_return"
           => LET output_path == CaptionPath(run[p].video_id)
                  lines == SnippetLines(run[p].transcript.snippets)
              IN  /\ output_path \in DOMAIN files
                  /\ files[output_path] = lines
                  /\ WriteFile(files, output_path, lines) = files

\* the segments file held more lines before this invocation overwrote it
C13_Witness ==
    \E p \in Procs :
        /\ run[p].pc = "dat_return"
        /\ LET segments_file == SegmentsPath(AudioPath(run[p].video_id))
           IN  /\ segments_file \in DOMAIN run[p].before
               /\ segments_file \in DOMAIN files
               /\ files[segments_file] # <<>>
               /\ Len(run[p].before[segments_file]) > Len(files[segments_file])
               /\ files[segments_file] = SegmentLines(run[p].result.segments)

(***************************************************************************)
(* C14: a download_and_transcribe that returned did its steps in this      *)
(* order: model validation, identifier resolution, downloader, model load, *)
(* transcription, write of the full-text file, write of the segments file, *)
(* return; both files are on disk when it returns, and the transcript and  *)
(* segments it returns are what the files at the returned paths hold.      *)
(***************************************************************************)
DatStepOps ==
    << "extract_video_id", "subprocess.run", "whisper.load_model",
       "model.transcribe", "write", "write" >>

C14_StepsInOrder ==
    \A p \in Procs :
        run[p].ret.tag = "download_and_transcribe"
        => LET log == run[p].log
               n   == Len(log)
               k   == Len(DatStepOps)
           IN  /\ ModelIsValid(run[p].model_name)
               /\ n >= k
               /\ \A i \in 1..k : /\ log[n - k + i].op = DatStepOps[i]
                                  /\ log[n - k + i].outcome = "ok"
               /\ \A i \in 1..(n - k) : log[i].op \in {"os.makedirs", "input"}
               /\ log[n - 1].arg = run[p].ret.transcript_file
               /\ log[n].arg = run[p].ret.segments_file
               /\ run[p].ret.audio_file \in DOMAIN files
               /\ run[p].ret.transcript_file \in DOMAIN files
               /\ run[p].ret.segments_file \in DOMAIN files
               /\ files[run[p].ret.transcript_file] = run[p].ret.transcript
               /\ files[run[p].ret.segments_file] = SegmentLines(run[p].ret.segments)

C14_Witness ==
    \E p \in Procs :
        /\ run[p].ret.tag = "download_and_transcribe"
        /\ run[p].pc = "done"
        /\ Len(run[p].ret.segments) = 2
        /\ Len(run[p].log) >= Len(DatStepOps)
        /\ run[p].log[Len(run[p].log)].op = "write"
        /\ files[run[p].ret.segments_file] = SegmentLines(run[p].ret.segments)

(***************************************************************************)
(* Two invocations of download_and_transcribe at the same time, on the     *)
(* same identifier.  Each "with open(path, 'w') as f: f.write(...)" is two *)
(* steps on the shared disk: open() truncates the file, and the close at   *)
(* the end of the block flushes what was written at offset 0.              *)
(***************************************************************************)
\* mutant of FlushAtStart: the flush goes to the end of the file
FlushAtEnd(old, content) == old \o content

\* the flush of a file opened with 'w': content lands at offset 0, over
\* whatever the file holds by then
FlushAtStart(old, content) ==
    content \o SubSeq(old, Len(content) + 1, Len(old))

InitConc ==
    /\ \E m1 \in ModelArgs, m2 \in ModelArgs :
         run = [p \in Procs |->
                  [Fresh EXCEPT !.pc = "dat_validate",
                                !.entry = "download_and_transcribe",
                                !.youtube_url = Tok1,
                                !.model_name = IF p = "p1" THEN m1 ELSE m2]]
    /\ dirs = {OutputDirectory}
    /\ files = <<>>
    /\ invocations = 1

\* open(transcript_file, 'w')
DatOpenTranscript(p) ==
    /\ run[p].pc = "dat_write_transcript"
    /\ files' = WriteFile(files, TranscriptPath(AudioPath(run[p].video_id)), <<>>)
    /\ run' = [run EXCEPT ![p].pc = "dat_close_transcript"]
    /\ UNCHANGED <<dirs, invocations>>

\* f.write(result["text"]) and the end of the with block
DatCloseTranscript(p) ==
    /\ run[p].pc = "dat_close_transcript"
    /\ LET transcript_file == TranscriptPath(AudioPath(run[p].video_id))
       IN  /\ files' = WriteFile(files, transcript_file,
                                 FlushAtStart(files[transcript_file], run[p].result.text))
           /\ run' = [run EXCEPT ![p].pc = "dat_write_segments",
                                 ![p].log = Append(@, Ev("write", transcript_file, "ok"))]
    /\ UNCHANGED <<dirs, invocations>>

\* open(segments_file, 'w')
DatOpenSegments(p) ==
    /\ run[p].pc = "dat_write_segments"
    /\ files' = WriteFile(files, SegmentsPath(AudioPath(run[p].video_id)), <<>>)
    /\ run' = [run EXCEPT ![p].pc = "dat_close_segments"]
    /\ UNCHANGED <<dirs, invocations>>

\* the f.write of every segment line and the end of the with block
DatCloseSegments(p) ==
    /\ run[p].pc = "dat_close_segments"
    /\ LET segments_file == SegmentsPath(AudioPath(run[p].video_id))
       IN  /\ files' = WriteFile(files, segments_file,
                                 FlushAtStart(files[segments_file],
                                              SegmentLines(run[p].result.segments)))
           /\ run' = [run EXCEPT ![p].pc = "dat_return",
                                 ![p].log = Append(@, Ev("write", segments_file, "ok"))]
    /\ UNCHANGED <<dirs, invocations>>

NextConc ==
    \E p \in Procs :
        \/ DatValidate(p) \/ DatResolve(p) \/ DatDownload(p)
        \/ DatLoadModel(p) \/ DatTranscribe(p)
        \/ DatOpenTranscript(p) \/ DatCloseTranscript(p)
        \/ DatOpenSegments(p) \/ DatCloseSegments(p)
        \/ DatReturn(p)

SpecConc == InitConc /\ [][NextConc]_vars

IsPrefix(a, b) == Len(a) <= Len(b) /\ SubSeq(b, 1, Len(a)) = a

BothReturned ==
    \A p \in Procs : run[p].pc = "done" /\ run[p].ret.tag = "download_and_transcribe"

(***************************************************************************)
(* C15: nothing locks the output files, so two invocations on the same     *)
(* identifier that run at the same time share their three paths and each   *)
(* file ends as what the two flushes left: it starts with the text (the    *)
(* segment lines) of one of the invocations and is no longer than the      *)
(* longer of the two.  The witness is the race of the claim: both have     *)
(* returned, the full-text file is one invocation's text, the segments     *)
(* file is the other invocation's lines, and the pair matches neither      *)
(* returned result.                                                        *)
(***************************************************************************)
C15_SharedFilesRace ==
    BothReturned
    => LET r1 == run["p1"].ret
           r2 == run["p2"].ret
           lines1 == SegmentLines(r1.segments)
           lines2 == SegmentLines(r2.segments)
       IN  /\ r1.transcript_file = r2.transcript_file
           /\ r1.segments_file = r2.segments_file
           /\ r1.audio_file = r2.audio_file
           /\ {r1.transcript_file, r1.segments_file, r1.audio_file} \subseteq DOMAIN files
           /\ \/ IsPrefix(r1.transcript, files[r1.transcript_file])
              \/ IsPrefix(r2.transcript, files[r1.transcript_file])
           /\ Len(files[r1.transcript_file]) <= Max({Len(r1.transcript), Len(r2.transcript)})
           /\ \/ IsPrefix(lines1, files[r1.segments_file])
              \/ IsPrefix(lines2, files[r1.segments_file])
           /\ Len(files[r1.segments_file]) <= Max({Len(lines1), Len(lines2)})

C15_Witness ==
    /\ BothReturned
    /\ \E p \in Procs, q \in Procs :
         /\ p # q
         /\ files[run[p].ret.transcript_file] = run[p].ret.transcript
         /\ files[run[p].ret.segments_file] = SegmentLines(run[q].ret.segments)
         /\ files[run[p].ret.transcript_file] # run[q].ret.transcript
         /\ files[run[p].ret.segments_file] # SegmentLines(run[p].ret.segments)

(***************************************************************************)
(* What was typed at a prompt of main(), and the numerals of a menu.       *)
(***************************************************************************)
Typed(r, prompt) ==
    { r.log[i].arg : i \in { j \in DOMAIN r.log :
                               r.log[j].op = "input" /\ r.log[j].outcome = prompt } }

\* the decimal numerals of the entries of a menu
MenuNumerals == [k \in 1..Len(WHISPER_MODELS) |-> IntChars(k)]

\* the answer is the decimal numeral of entry k of a menu
IsNumeral(answer, k) == answer = MenuNumerals[k]

(***************************************************************************)
(* C16: whatever is typed at the model prompt of path B, the model name    *)
(* main() passes on is in WHISPER_MODELS: the numeral of a menu entry      *)
(* gives that entry, anything else (nothing, a non-number, a number off    *)
(* the menu) gives "large"; the invalid-model error is never raised in a   *)
(* run of main().                                                          *)
(***************************************************************************)
C16_PromptYieldsListedModel ==
    \A p \in Procs :
        run[p].entry = "main"
        => /\ run[p].raised # InvalidModelError
           /\ \A typed \in Typed(run[p], "model") :
                LET answer == Strip(typed)
                    menu   == 1..Len(WHISPER_MODELS)
                IN  /\ \E k \in menu : run[p].model_name = WHISPER_MODELS[k]
                    /\ \A k \in menu :
                          IsNumeral(answer, k) => run[p].model_name = WHISPER_MODELS[k]
                    /\ (\A k \in menu : ~IsNumeral(answer, k))
                          => run[p].model_name = "large"

\* a number past the end of the menu was typed, and the call went on past
\* its validation with "large"
C16_Witness ==
    \E p \in Procs :
        /\ run[p].entry = "main"
        /\ <<"1","5">> \in Typed(run[p], "model")
        /\ run[p].model_name = "large"
        /\ HasEv(run[p], "extract_video_id", "ok")
        /\ run[p].raised # InvalidModelError

(***************************************************************************)
(* C17: in path A of main(), the captions are fetched only for one         *)
(* language code, taken from the list the service gave for the same        *)
(* identifier.  Nothing typed at the language prompt selects the first     *)
(* listed track, the numeral of a listed track selects that track, and     *)
(* anything else ends the run with a reported error, no fetch and no file  *)
(* written.                                                                *)
(***************************************************************************)
C17_FetchOnlyListedLanguage ==
    \A p \in Procs :
        run[p].entry = "main"
        => LET r == run[p]
               N == Len(r.languages)
           IN  /\ \A j \in DOMAIN r.log :
                     r.log[j].op = "ytt_api.fetch"
                     => /\ Len(r.lang_arg) = 1
                        /\ \E k \in 1..N : r.lang_arg[1] = r.languages[k].language_code
                        /\ \E i \in 1..(j - 1) :
                              /\ r.log[i] = Ev("ytt_api.list", r.log[j].arg, "ok")
               /\ \A typed \in Typed(r, "language") :
                    LET answer == Strip(typed)
                    IN  /\ N >= 1
                        /\ answer = <<>> => r.lang_arg = <<r.languages[1].language_code>>
                        /\ \A k \in 1..N :
                              IsNumeral(answer, k)
                              => r.lang_arg = <<r.languages[k].language_code>>
                        /\ (answer # <<>> /\ \A k \in 1..N : ~IsNumeral(answer, k))
                              => /\ r.pc = "done"
                                 /\ r.report \in {"Error", "Invalid selection"}
                                 /\ NoOps(r, {"ytt_api.fetch", "write"})
                                 /\ SameFiles(r.before, files)

\* "2" was typed when one track was listed
C17_Witness ==
    \E p \in Procs :
        /\ run[p].entry = "main"
        /\ Len(run[p].languages) = 1
        /\ <<"2">> \in Typed(run[p], "language")
        /\ run[p].pc = "done"
        /\ run[p].report = "Invalid selection"
        /\ NoOps(run[p], {"ytt_api.fetch", "write"})

(***************************************************************************)
(* C18: the files of path A and of path B for one identifier are at        *)
(* different paths: a download_and_transcribe leaves the caption file that *)
(* fetch_transcript wrote for its identifier as it found it, and a         *)
(* fetch_transcript leaves the full-text and segments files that           *)
(* download_and_transcribe wrote for its identifier as it found them.      *)
(***************************************************************************)
C18_PathsOfTheTwoPathsDisjoint ==
    \A p \in Procs :
        LET r == run[p]
            output_path     == CaptionPath(r.video_id)
            transcript_file == TranscriptPath(AudioPath(r.video_id))
            segments_file   == SegmentsPath(AudioPath(r.video_id))
        IN  /\ (r.ret.tag = "download_and_transcribe" /\ output_path \in DOMAIN r.before)
               => SameFile(output_path, r.before, files)
            /\ (r.ret.tag = "fetch_transcript" /\ transcript_file \in DOMAIN r.before)
               => SameFile(transcript_file, r.before, files)
            /\ (r.ret.tag = "fetch_transcript" /\ segments_file \in DOMAIN r.before)
               => SameFile(segments_file, r.before, files)

(***************************************************************************)
(* C19: every URL download_and_transcribe hands to the downloader is the   *)
(* canonical playback URL of the resolved identifier, and that identifier  *)
(* has exactly 11 characters, so the branch passing the raw input on is    *)
(* never taken.                                                            *)
(***************************************************************************)
C19_DownloaderGetsCanonicalUrl ==
    \A p \in Procs :
        \A i \in DOMAIN run[p].log :
            run[p].log[i].op = "subprocess.run"
            => /\ Len(run[p].video_id) = IdLen
               /\ run[p].log[i].arg = WatchBase \o <<"v","=">> \o run[p].video_id

====
